---- MODULE Spec2Model ----
(***************************************************************************)
(* Model of convex/conversations (group lifecycle, conversation listing)   *)
(* and convex/requests (friend-request lifecycle) of the chat application. *)
(* Every Convex query/mutation is one action: Convex runs a handler as one *)
(* serializable transaction, and a handler that throws writes nothing.     *)
(* A handler is an operator from the caller, the arguments and the store   *)
(* to an outcome (ok or error, the value or message, the store afterwards);*)
(* its action commits the store of the outcome.                            *)
(***************************************************************************)
EXTENDS Integers, Sequences, FiniteSets, TLC

\* ---------------------------------------------------------------- bounds
MaxConversations == 2   \* conversations stored at once
MaxRequests == 2        \* requests stored at once
MaxMessages == 1        \* messages ever inserted
MaxMemberIds == 2       \* length of a memberIds argument
MaxDocs == 5            \* documents stored at once, in all tables
MaxUsernameLen == 2     \* length of a username argument
MaxResends == 2         \* re-sends of a denied request that the history counts
MaxFailures == 1        \* reads that throw during one conversations.get
MaxStoredLen == 3       \* length of a stored username in the matching specification

\* ------------------------------------------------------------- constants
NoId == 0               \* an absent document id (undefined)
NoUser == "none"        \* an absent user id (undefined / null)
NoImage == "none"
Ghost == "u9"           \* a well-formed users id that names no stored user
Malformed == "bad"      \* a string that is not a document id

\* the message a client gets for an error that is not a ConvexError, and the
\* error .unique() throws when more than one row matches
ServerError == "Server Error"
UniqueError == "unique() returned more than one result"
\* the error ctx.db.get throws for a string that is not a document id
IdError == "Invalid argument id for db.get"

\* characters of usernames: letters, a digit, the crown and shield emoji,
\* the variation selector U+FE0F and one more emoji of the stripped ranges
CROWN == "CROWN"
SHIELD == "SHIELD"
VS16 == "VS16"
GRIN == "GRIN"

\* the users table in creation order (rows are written by the auth webhook)
users ==
    << [_id |-> "u1", clerkId |-> "s1", username |-> <<"a">>, email |-> "e1"],
       [_id |-> "u2", clerkId |-> "s2", username |-> <<"B", CROWN>>, email |-> "e2"] >>

UserRows == {users[i] : i \in 1..Len(users)}
UserIds == {u._id : u \in UserRows}
NoUserRow == [_id |-> NoUser, clerkId |-> "", username |-> <<>>, email |-> ""]

\* what ctx.auth.getUserIdentity() can return: null, the identity of a stored
\* user, or an identity that has no users row yet. The email of an identity
\* is a claim of the provider's token; nothing in the handlers ties it to the
\* email of the users row, so one stored user also signs in with a token
\* whose email claim is not the stored address.
NoIdentity == [subject |-> "", email |-> ""]
Identities ==
    {[subject |-> u.clerkId, email |-> u.email] : u \in UserRows}
        \cup {[subject |-> "s1", email |-> "ex"]}
        \cup {[subject |-> "s0", email |-> "e0"]}
Callers == Identities \cup {NoIdentity}

getUserByClerkId(subject) ==
    IF \E u \in UserRows : u.clerkId = subject
    THEN CHOOSE u \in UserRows : u.clerkId = subject
    ELSE NoUserRow

\* ctx.db.get(id) on the users table
getUser(id) ==
    IF \E u \in UserRows : u._id = id
    THEN CHOOSE u \in UserRows : u._id = id
    ELSE NoUserRow

\* ----------------------------------------------------------------- state
VARIABLES
    conversations,      \* set of conversation rows
    members,            \* conversationMembers rows, in creation order
    messages,           \* set of message rows
    requests,           \* set of request rows
    friendships,        \* friendships rows, in creation order
    nextMessageId,      \* creation clock of the messages table
    call,               \* the accept that is applying its writes one at a time
                        \* (step specification), or NoCall
    match,              \* the stored username and the input whose matching is
                        \* being computed (matching specification), or NoMatch
    history             \* history variable of the re-send specification: the
                        \* (sender, receiver) pairs whose request was denied and
                        \* not sent again, and the number of re-sends so far

vars ==
    <<conversations, members, messages, requests, friendships, nextMessageId,
      call, match, history>>

\* the tables a handler reads and writes through ctx.db
db ==
    [conversations |-> conversations, members |-> members, messages |-> messages,
     requests |-> requests, friendships |-> friendships]

NoCall == [steps |-> <<>>, pc |-> 0, request |-> 0]
NoMatch == [stored |-> <<>>, input |-> <<>>, resolved |-> "none"]

EmptyStore ==
    /\ conversations = {}
    /\ members = <<>>
    /\ messages = {}
    /\ requests = {}
    /\ friendships = <<>>
    /\ nextMessageId = 1
    /\ history = [denied |-> {}, resends |-> 0]
    /\ call = NoCall

Init ==
    /\ EmptyStore
    /\ match = NoMatch

\* outcome of a call: a returned value and the store the writes leave, or an
\* error with the reason thrown inside the handler and the message that
\* reaches the client; the transaction of a call that throws writes nothing
Return(value, d) ==
    [ok |-> TRUE, reason |-> "", msg |-> "", value |-> value, db |-> d]
Throw(reason, msg) ==
    [ok |-> FALSE, reason |-> reason, msg |-> msg, value |-> 0, db |-> db]

\* the bounds of the model limit the documents stored at once
Fits(d) ==
    /\ Cardinality(d.conversations) <= MaxConversations
    /\ Cardinality(d.requests) <= MaxRequests
    /\ Cardinality(d.conversations) + Len(d.members) + Cardinality(d.messages)
            + Cardinality(d.requests) + Len(d.friendships) <= MaxDocs

\* the store of an outcome becomes the store
Store(o) ==
    /\ conversations' = o.db.conversations
    /\ members' = o.db.members
    /\ messages' = o.db.messages
    /\ requests' = o.db.requests
    /\ friendships' = o.db.friendships
    /\ UNCHANGED nextMessageId

Commit(o) ==
    /\ Store(o)
    /\ UNCHANGED <<call, match, history>>

\* ctx.db.insert returns an id that names no stored row of the table
newId(used) ==
    CHOOSE i \in 1..(Cardinality(used) + 1) :
        i \notin used /\ \A j \in 1..(i - 1) : j \in used

\* --------------------------------------------------------------- helpers
Names == {"n1", "n2"}
Images == {"i1"}
MemberIdLists ==
    UNION {[1..n -> UserIds \cup {Ghost}] : n \in 0..MaxMemberIds}
\* member ids declared v.string(): passed to ctx.db.get unvalidated
MemberIdArgs == UserIds \cup {Ghost, Malformed}
StringIdLists ==
    UNION {[1..n -> MemberIdArgs] : n \in 0..MaxMemberIds}
ConversationArgs == 1..MaxConversations
RequestArgs == 1..MaxRequests

NoConversation ==
    [_id |-> NoId, isGroup |-> FALSE, name |-> "", imageUrl |-> NoImage,
     creatorId |-> NoUser, lastMessageId |-> NoId]

\* ctx.db.get(id) on the conversations table
getConversation(id) ==
    IF \E c \in conversations : c._id = id
    THEN CHOOSE c \in conversations : c._id = id
    ELSE NoConversation

\* index by_conversationId of conversationMembers
byConversationId(cid) ==
    SelectSeq(members, LAMBDA r : r.conversationId = cid)

\* mutant: the index is not restricted to the member
byMemberId_AllRows(mid) == members

\* index by_memberId of conversationMembers
byMemberId(mid) ==
    SelectSeq(members, LAMBDA r : r.memberId = mid)

\* index by_memberId_conversationId of conversationMembers
byMemberIdConversationId(mid, cid) ==
    SelectSeq(members, LAMBDA r : r.memberId = mid /\ r.conversationId = cid)

Row(cid, mid) == [conversationId |-> cid, memberId |-> mid]

RECURSIVE DeleteFirst(_, _)
\* ctx.db.delete(row._id) of the first stored row equal to row
DeleteFirst(rows, row) ==
    IF rows = <<>> THEN <<>>
    ELSE IF Head(rows) = row THEN Tail(rows)
    ELSE <<Head(rows)>> \o DeleteFirst(Tail(rows), row)

MembersToRows(cid, ids) == [i \in 1..Len(ids) |-> Row(cid, ids[i])]

\* mutant: the identity is not checked
AuthReason_Off(caller) == ""

\* the identity check and user lookup every handler starts with
AuthReason(caller) ==
    IF caller = NoIdentity THEN "Unauthorized"
    ELSE IF getUserByClerkId(caller.subject) = NoUserRow THEN "User not found"
    ELSE ""

\* the conversation checks shared by the group mutations
GroupReason(caller, cid) ==
    IF AuthReason(caller) # "" THEN AuthReason(caller)
    ELSE IF getConversation(cid) = NoConversation THEN "Conversation not found"
    ELSE IF ~getConversation(cid).isGroup THEN "This is not a group conversation"
    ELSE ""

\* conversation.creatorId?.toString() === currentUser._id.toString()
IsCreator(conversation, user) ==
    conversation.creatorId # NoUser /\ conversation.creatorId = user._id

\* mutant: any member of the group passes for its creator
CreatorReason_AnyMember(caller, cid, what) ==
    IF GroupReason(caller, cid) # "" THEN GroupReason(caller, cid)
    ELSE IF byMemberIdConversationId(getUserByClerkId(caller.subject)._id, cid) = <<>>
    THEN what
    ELSE ""

CreatorReason(caller, cid, what) ==
    IF GroupReason(caller, cid) # "" THEN GroupReason(caller, cid)
    ELSE IF ~IsCreator(getConversation(cid), getUserByClerkId(caller.subject))
    THEN what
    ELSE ""

\* ------------------------------------------------------ group mutations
createGroupOutcome(caller, name, memberIds) ==
    LET reason == AuthReason(caller)
        currentUser == getUserByClerkId(caller.subject)
        conversationId == newId({c._id : c \in conversations})
    IN  IF reason # "" THEN Throw(reason, "Failed to create group")
        ELSE Return(conversationId,
                [db EXCEPT
                    !.conversations = @ \cup
                        {[_id |-> conversationId, isGroup |-> TRUE, name |-> name,
                          imageUrl |-> NoImage, creatorId |-> currentUser._id,
                          lastMessageId |-> NoId]},
                    !.members = @ \o <<Row(conversationId, currentUser._id)>>
                                  \o MembersToRows(conversationId, memberIds)])

createGroup ==
    \E caller \in Callers, name \in Names, memberIds \in MemberIdLists :
        LET o == createGroupOutcome(caller, name, memberIds)
        IN  /\ Fits(o.db)
            /\ Commit(o)

createGroupChatOutcome(caller, name, memberIds, imageUrl) ==
    LET reason == AuthReason(caller)
        currentUser == getUserByClerkId(caller.subject)
        conversationId == newId({c._id : c \in conversations})
        found == SelectSeq(memberIds, LAMBDA m : getUser(m) # NoUserRow)
    IN  IF reason # "" THEN Throw(reason, reason)
        ELSE IF \E i \in 1..Len(memberIds) : memberIds[i] = Malformed
        THEN Throw(IdError, ServerError)
        ELSE Return(conversationId,
                [db EXCEPT
                    !.conversations = @ \cup
                        {[_id |-> conversationId, isGroup |-> TRUE, name |-> name,
                          imageUrl |-> imageUrl, creatorId |-> currentUser._id,
                          lastMessageId |-> NoId]},
                    !.members = @ \o <<Row(conversationId, currentUser._id)>>
                                  \o MembersToRows(conversationId, found)])

createGroupChat ==
    \E caller \in Callers, name \in Names, memberIds \in StringIdLists,
       imageUrl \in Images \cup {NoImage} :
        LET o == createGroupChatOutcome(caller, name, memberIds, imageUrl)
        IN  /\ Fits(o.db)
            /\ Commit(o)

\* mutant: the messages of the conversation are not deleted
deleteGroupHandler_KeepsMessages(cid) ==
    [db EXCEPT
        !.members = SelectSeq(@, LAMBDA r : r.conversationId # cid),
        !.conversations = {c \in @ : c._id # cid}]

\* the store after deleteGroupHandler(ctx, {conversationId: cid})
deleteGroupHandler(cid) ==
    [db EXCEPT
        !.members = SelectSeq(@, LAMBDA r : r.conversationId # cid),
        !.messages = {m \in @ : m.conversationId # cid},
        !.conversations = {c \in @ : c._id # cid}]

\* mutant: a creator who leaves stays the stored creator
leaveGroupOutcome_NoTransfer(caller, cid) ==
    LET currentUser == getUserByClerkId(caller.subject)
        conversation == getConversation(cid)
        membership == byMemberIdConversationId(currentUser._id, cid)
        otherMembers ==
            SelectSeq(byConversationId(cid), LAMBDA r : r.memberId # currentUser._id)
    IN  IF GroupReason(caller, cid) # "" \/ Len(membership) # 1
        THEN Throw("You are not a member of this group", "Failed to leave group")
        ELSE IF IsCreator(conversation, currentUser) /\ Len(otherMembers) = 0
        THEN Return([success |-> TRUE], deleteGroupHandler(cid))
        ELSE Return([success |-> TRUE],
                [db EXCEPT !.members = DeleteFirst(@, membership[1])])

leaveGroupOutcome(caller, cid) ==
    LET currentUser == getUserByClerkId(caller.subject)
        conversation == getConversation(cid)
        membership == byMemberIdConversationId(currentUser._id, cid)
        reason ==
            IF GroupReason(caller, cid) # "" THEN GroupReason(caller, cid)
            ELSE IF Len(membership) > 1 THEN UniqueError
            ELSE IF Len(membership) = 0 THEN "You are not a member of this group"
            ELSE ""
        isCreator == IsCreator(conversation, currentUser)
        otherMembers ==
            SelectSeq(byConversationId(cid), LAMBDA r : r.memberId # currentUser._id)
    IN  IF reason # "" THEN Throw(reason, "Failed to leave group")
        ELSE IF isCreator /\ Len(otherMembers) = 0
        THEN Return([success |-> TRUE], deleteGroupHandler(cid))
        ELSE Return([success |-> TRUE],
                [db EXCEPT
                    !.conversations =
                        IF isCreator
                        THEN (@ \ {conversation}) \cup
                             {[conversation EXCEPT
                                 !.creatorId = otherMembers[1].memberId]}
                        ELSE @,
                    !.members = DeleteFirst(@, membership[1])])

leaveGroup ==
    \E caller \in Callers, cid \in ConversationArgs :
        LET o == leaveGroupOutcome(caller, cid)
        IN  /\ Fits(o.db)
            /\ Commit(o)

deleteGroupOutcome(caller, cid) ==
    LET reason == CreatorReason(caller, cid,
                      "Only the group creator can delete the group")
    IN  IF reason # "" THEN Throw(reason, "Failed to delete group")
        ELSE Return([success |-> TRUE], deleteGroupHandler(cid))

deleteGroup ==
    \E caller \in Callers, cid \in ConversationArgs :
        LET o == deleteGroupOutcome(caller, cid)
        IN  /\ Fits(o.db)
            /\ Commit(o)

isGroupCreatorOutcome(caller, cid) ==
    LET currentUser == getUserByClerkId(caller.subject)
        conversation == getConversation(cid)
    IN  IF caller = NoIdentity THEN Return(FALSE, db)
        ELSE IF currentUser = NoUserRow THEN Return(FALSE, db)
        ELSE IF conversation = NoConversation \/ ~conversation.isGroup
        THEN Return(FALSE, db)
        ELSE Return(IsCreator(conversation, currentUser), db)

isGroupCreator ==
    \E caller \in Callers, cid \in ConversationArgs :
        LET o == isGroupCreatorOutcome(caller, cid)
        IN  /\ Fits(o.db)
            /\ Commit(o)

updateGroupNameOutcome(caller, cid, name) ==
    LET conversation == getConversation(cid)
        reason == CreatorReason(caller, cid,
                      "Only the group creator can update the group name")
    IN  IF reason # "" THEN Throw(reason, "Failed to update group name")
        ELSE Return([success |-> TRUE],
                [db EXCEPT !.conversations =
                    (@ \ {conversation}) \cup {[conversation EXCEPT !.name = name]}])

updateGroupName ==
    \E caller \in Callers, cid \in ConversationArgs, name \in Names :
        LET o == updateGroupNameOutcome(caller, cid, name)
        IN  /\ Fits(o.db)
            /\ Commit(o)

updateGroupImageOutcome(caller, cid, imageUrl) ==
    LET conversation == getConversation(cid)
        reason == CreatorReason(caller, cid,
                      "Only the group creator can update the group image")
    IN  IF reason # "" THEN Throw(reason, "Failed to update group image")
        ELSE Return([success |-> TRUE],
                [db EXCEPT !.conversations =
                    (@ \ {conversation}) \cup
                    {[conversation EXCEPT !.imageUrl = imageUrl]}])

updateGroupImage ==
    \E caller \in Callers, cid \in ConversationArgs, imageUrl \in Images :
        LET o == updateGroupImageOutcome(caller, cid, imageUrl)
        IN  /\ Fits(o.db)
            /\ Commit(o)

addGroupMembersOutcome(caller, cid, memberIds) ==
    LET creatorReason == CreatorReason(caller, cid,
                      "Only the group creator can add members to the group")
        reason ==
            IF creatorReason # "" THEN creatorReason
            ELSE IF \E i \in 1..Len(memberIds) : memberIds[i] = Malformed
            THEN IdError
            ELSE ""
        existingMembers == byConversationId(cid)
        existingMemberIds ==
            {existingMembers[i].memberId : i \in 1..Len(existingMembers)}
        added == SelectSeq(memberIds,
                     LAMBDA m : getUser(m) # NoUserRow
                                /\ getUser(m)._id \notin existingMemberIds)
    IN  IF reason # "" THEN Throw(reason, "Failed to add members to group")
        ELSE Return([success |-> TRUE, addedCount |-> Len(added)],
                [db EXCEPT !.members = @ \o MembersToRows(cid, added)])

addGroupMembers ==
    \E caller \in Callers, cid \in ConversationArgs, memberIds \in StringIdLists :
        LET o == addGroupMembersOutcome(caller, cid, memberIds)
        IN  /\ Fits(o.db)
            /\ Commit(o)

\* mutant: the creator is not protected from removal
removeGroupMemberOutcome_NoCreatorCheck(caller, cid, memberId) ==
    LET memberToRemove == getUser(memberId)
        membership == byMemberIdConversationId(memberToRemove._id, cid)
        creatorReason == CreatorReason(caller, cid,
                      "Only the group creator can remove members from the group")
    IN  IF creatorReason # "" \/ memberToRemove = NoUserRow \/ Len(membership) # 1
        THEN Throw("This user is not a member of the group",
                   "Failed to remove member from group")
        ELSE Return([success |-> TRUE],
                [db EXCEPT !.members = DeleteFirst(@, membership[1])])

removeGroupMemberOutcome(caller, cid, memberId) ==
    LET conversation == getConversation(cid)
        memberToRemove == getUser(memberId)
        membership == byMemberIdConversationId(memberToRemove._id, cid)
        creatorReason == CreatorReason(caller, cid,
                      "Only the group creator can remove members from the group")
        reason ==
            IF creatorReason # "" THEN creatorReason
            ELSE IF memberId = Malformed THEN IdError
            ELSE IF memberToRemove = NoUserRow THEN "Member not found"
            ELSE IF memberToRemove._id = conversation.creatorId
            THEN "Cannot remove the group creator"
            ELSE IF Len(membership) > 1 THEN UniqueError
            ELSE IF Len(membership) = 0 THEN "This user is not a member of the group"
            ELSE ""
    IN  IF reason # "" THEN Throw(reason, "Failed to remove member from group")
        ELSE Return([success |-> TRUE],
                [db EXCEPT !.members = DeleteFirst(@, membership[1])])

removeGroupMember ==
    \E caller \in Callers, cid \in ConversationArgs, memberId \in MemberIdArgs :
        LET o == removeGroupMemberOutcome(caller, cid, memberId)
        IN  /\ Fits(o.db)
            /\ Commit(o)

\* ------------------------------------------------------ username matching
LetterChars == {"a", "b", "A", "B", "2"}
UsernameChars == {"a", "B", CROWN, " "}
UsernameArgs == UNION {[1..n -> UsernameChars] : n \in 0..MaxUsernameLen}
EmailArgs == {"", " ", "e0", "e1", "e2", "ex"}

\* String.prototype.toLowerCase
toLowerCase(s) ==
    [i \in 1..Len(s) |->
        IF s[i] = "A" THEN "a" ELSE IF s[i] = "B" THEN "b" ELSE s[i]]

RECURSIVE trimStart(_)
trimStart(s) ==
    IF s # <<>> /\ Head(s) = " " THEN trimStart(Tail(s)) ELSE s

RECURSIVE trimEnd(_)
trimEnd(s) ==
    IF s # <<>> /\ s[Len(s)] = " " THEN trimEnd(SubSeq(s, 1, Len(s) - 1)) ELSE s

\* String.prototype.trim
trim(s) == trimEnd(trimStart(s))

\* email.trim() of an email argument: "" and " " are the blank ones
trimEmail(e) == IF e = " " THEN "" ELSE e

\* /^[a-zA-Z0-9_.-]+$/.test(s)
usernameRegex(s) == Len(s) > 0 /\ \A i \in 1..Len(s) : s[i] \in LetterChars

RECURSIVE replacePair(_, _, _)
\* s.replace(/xy/gu, '') for the two-code-point sequence x y
replacePair(s, x, y) ==
    IF Len(s) < 2 THEN s
    ELSE IF s[1] = x /\ s[2] = y THEN replacePair(SubSeq(s, 3, Len(s)), x, y)
    ELSE <<s[1]>> \o replacePair(Tail(s), x, y)

\* s.replace(/[...]/gu, '') for a set of single code points
replaceAll(s, set) == SelectSeq(s, LAMBDA ch : ch \notin set)

\* the code points of the model that lie in the emoji ranges of line 872
EmojiRanges == {GRIN, SHIELD, CROWN}

getCleanUsername(text) ==
    LET r1 == replacePair(text, SHIELD, VS16)
        r2 == replaceAll(r1, {SHIELD})
        r3 == replaceAll(r2, {CROWN})
        r4 == replaceAll(r3, EmojiRanges)
    IN  toLowerCase(trim(r4))

\* mutant: only the username itself matches
usernameMatches_ExactOnly(user, normalizedInputUsername) ==
    toLowerCase(user.username) = normalizedInputUsername

\* the predicate of allUsers.find(...)
usernameMatches(user, normalizedInputUsername) ==
    \/ toLowerCase(user.username) = normalizedInputUsername
    \/ toLowerCase(user.username) = normalizedInputUsername \o <<SHIELD, VS16>>
    \/ toLowerCase(user.username) = normalizedInputUsername \o <<SHIELD>>
    \/ toLowerCase(user.username) = normalizedInputUsername \o <<CROWN>>
    \/ getCleanUsername(user.username) = normalizedInputUsername

\* allUsers.find(...): the first matching row of the scan, or null
findUser(normalizedInputUsername) ==
    LET hits == SelectSeq(users, LAMBDA u : usernameMatches(u, normalizedInputUsername))
    IN  IF hits = <<>> THEN NoUserRow ELSE hits[1]

\* index by_email of users, .unique()
userByEmail(email) ==
    IF \E u \in UserRows : u.email = email
    THEN CHOOSE u \in UserRows : u.email = email
    ELSE NoUserRow

\* ------------------------------------------------------- friend requests
\* index by_senderId_receiverId of requests
bySenderIdReceiverId(sid, rid) ==
    {r \in requests : r.senderId = sid /\ r.receiverId = rid}

\* index by_userIds of friendships
byUserIds(id1, id2) ==
    SelectSeq(friendships, LAMBDA f : f.userId1 = id1 /\ f.userId2 = id2)

NoRequest == [_id |-> NoId, senderId |-> NoUser, receiverId |-> NoUser, status |-> ""]

\* ctx.db.get(id) on the requests table
getRequest(id) ==
    IF \E r \in requests : r._id = id
    THEN CHOOSE r \in requests : r._id = id
    ELSE NoRequest

\* mutant: the check for a request in the other direction is missing
PairReason_NoReverseCheck(currentUser, receiver) ==
    IF bySenderIdReceiverId(currentUser._id, receiver._id) # {}
    THEN "Request already sent"
    ELSE IF byUserIds(currentUser._id, receiver._id) # <<>>
            \/ byUserIds(receiver._id, currentUser._id) # <<>>
    THEN "You are already friends with this user"
    ELSE ""

\* mutant: the check for an existing friendship is missing
PairReason_NoFriendshipCheck(currentUser, receiver) ==
    IF bySenderIdReceiverId(currentUser._id, receiver._id) # {}
    THEN "Request already sent"
    ELSE IF bySenderIdReceiverId(receiver._id, currentUser._id) # {}
    THEN "This user has already sent you a request"
    ELSE ""

\* mutant: the check for a request already sent is missing
PairReason_NoSentCheck(currentUser, receiver) ==
    IF bySenderIdReceiverId(receiver._id, currentUser._id) # {}
    THEN "This user has already sent you a request"
    ELSE IF byUserIds(currentUser._id, receiver._id) # <<>>
            \/ byUserIds(receiver._id, currentUser._id) # <<>>
    THEN "You are already friends with this user"
    ELSE ""

\* the checks create and createByUsername run once the receiver is resolved
PairReason(currentUser, receiver) ==
    IF Cardinality(bySenderIdReceiverId(currentUser._id, receiver._id)) > 1
    THEN UniqueError
    ELSE IF bySenderIdReceiverId(currentUser._id, receiver._id) # {}
    THEN "Request already sent"
    ELSE IF Cardinality(bySenderIdReceiverId(receiver._id, currentUser._id)) > 1
    THEN UniqueError
    ELSE IF bySenderIdReceiverId(receiver._id, currentUser._id) # {}
    THEN "This user has already sent you a request"
    ELSE IF Len(byUserIds(currentUser._id, receiver._id)) > 1
            \/ Len(byUserIds(receiver._id, currentUser._id)) > 1
    THEN UniqueError
    ELSE IF byUserIds(currentUser._id, receiver._id) # <<>>
            \/ byUserIds(receiver._id, currentUser._id) # <<>>
    THEN "You are already friends with this user"
    ELSE ""

\* what the client receives for a thrown reason: the data of a ConvexError,
\* a generic message for any other error
Delivered(reason) == IF reason = UniqueError THEN ServerError ELSE reason

\* lines 834-840 and 955-961: the pending request row
insertRequest(reason, currentUser, receiver) ==
    LET id == newId({r._id : r \in requests})
    IN  IF reason # "" THEN Throw(reason, Delivered(reason))
        ELSE Return(id,
                [db EXCEPT !.requests = @ \cup
                    {[_id |-> id, senderId |-> currentUser._id,
                      receiverId |-> receiver._id, status |-> "pending"]}])

createOutcome(caller, email) ==
    LET currentUser == getUserByClerkId(caller.subject)
        receiver == userByEmail(email)
        reason ==
            IF caller = NoIdentity THEN "Unauthorized"
            ELSE IF trimEmail(email) = "" THEN "Email cannot be empty"
            ELSE IF email = caller.email THEN "Can't send a request to yourself"
            ELSE IF currentUser = NoUserRow THEN "User not found"
            ELSE IF receiver = NoUserRow THEN "User could not be found"
            ELSE PairReason(currentUser, receiver)
    IN  insertRequest(reason, currentUser, receiver)

create ==
    \E caller \in Callers, email \in EmailArgs :
        LET o == createOutcome(caller, email)
        IN  /\ Fits(o.db)
            /\ Commit(o)

createByUsernameOutcome(caller, username) ==
    LET currentUser == getUserByClerkId(caller.subject)
        normalizedInputUsername == toLowerCase(username)
        receiver == findUser(normalizedInputUsername)
        reason ==
            IF AuthReason(caller) # "" THEN AuthReason(caller)
            ELSE IF trim(username) = <<>> THEN "Username cannot be empty"
            ELSE IF ~usernameRegex(username)
            THEN "Username can only contain letters, numbers, underscores, periods, and hyphens"
            ELSE IF toLowerCase(currentUser.username) = normalizedInputUsername
                    \/ getCleanUsername(currentUser.username) = normalizedInputUsername
            THEN "Can't send a request to yourself"
            ELSE IF receiver = NoUserRow
            THEN "User with this username could not be found"
            ELSE PairReason(currentUser, receiver)
    IN  insertRequest(reason, currentUser, receiver)

createByUsername ==
    \E caller \in Callers, username \in UsernameArgs :
        LET o == createByUsernameOutcome(caller, username)
        IN  /\ Fits(o.db)
            /\ Commit(o)

\* mutant: the denied request is kept as a row with status "denied"
denyOutcome_MarksDenied(caller, id) ==
    LET currentUser == getUserByClerkId(caller.subject)
        request == getRequest(id)
    IN  IF AuthReason(caller) # "" \/ request = NoRequest
           \/ request.receiverId # currentUser._id
        THEN Throw("Request not found", "Request not found")
        ELSE Return(0, [db EXCEPT !.requests =
                           (@ \ {request}) \cup {[request EXCEPT !.status = "denied"]}])

\* mutant: the denied request stays stored
denyOutcome_KeepsRequest(caller, id) ==
    LET currentUser == getUserByClerkId(caller.subject)
        request == getRequest(id)
    IN  IF AuthReason(caller) # "" \/ request = NoRequest
           \/ request.receiverId # currentUser._id
        THEN Throw("Request not found", "Request not found")
        ELSE Return(0, db)

denyOutcome(caller, id) ==
    LET currentUser == getUserByClerkId(caller.subject)
        request == getRequest(id)
        reason ==
            IF AuthReason(caller) # "" THEN AuthReason(caller)
            ELSE IF request = NoRequest THEN "Request not found"
            ELSE IF request.receiverId # currentUser._id THEN "Request not found"
            ELSE ""
    IN  IF reason # "" THEN Throw(reason, Delivered(reason))
        ELSE Return(0, [db EXCEPT !.requests = @ \ {request}])

deny ==
    \E caller \in Callers, id \in RequestArgs :
        LET o == denyOutcome(caller, id)
        IN  /\ Fits(o.db)
            /\ Commit(o)

\* mutant: the accepted request is not deleted
acceptOutcome_KeepsRequest(caller, id) ==
    LET currentUser == getUserByClerkId(caller.subject)
        request == getRequest(id)
        conversationId == newId({c._id : c \in conversations})
    IN  IF AuthReason(caller) # "" \/ request = NoRequest
           \/ request.receiverId # currentUser._id
        THEN Throw("There was an error accepting this request",
                   "There was an error accepting this request")
        ELSE Return([success |-> TRUE],
                [db EXCEPT
                    !.conversations = @ \cup
                        {[NoConversation EXCEPT !._id = conversationId]},
                    !.friendships = @ \o
                        <<[userId1 |-> currentUser._id, userId2 |-> request.senderId,
                           status |-> "accepted"]>>,
                    !.members = @ \o <<Row(conversationId, currentUser._id)>>
                                  \o <<Row(conversationId, request.senderId)>>])

\* mutant: the accepted request is kept as a row with status "accepted"
acceptOutcome_MarksAccepted(caller, id) ==
    LET currentUser == getUserByClerkId(caller.subject)
        request == getRequest(id)
        conversationId == newId({c._id : c \in conversations})
    IN  IF AuthReason(caller) # "" \/ request = NoRequest
           \/ request.receiverId # currentUser._id
        THEN Throw("There was an error accepting this request",
                   "There was an error accepting this request")
        ELSE Return([success |-> TRUE],
                [db EXCEPT
                    !.conversations = @ \cup
                        {[NoConversation EXCEPT !._id = conversationId]},
                    !.friendships = @ \o
                        <<[userId1 |-> currentUser._id, userId2 |-> request.senderId,
                           status |-> "accepted"]>>,
                    !.members = @ \o <<Row(conversationId, currentUser._id)>>
                                  \o <<Row(conversationId, request.senderId)>>,
                    !.requests = (@ \ {request})
                                    \cup {[request EXCEPT !.status = "accepted"]}])

\* mutant: any stored user may accept a stored request
acceptOutcome_NoReceiverCheck(caller, id) ==
    LET currentUser == getUserByClerkId(caller.subject)
        request == getRequest(id)
        conversationId == newId({c._id : c \in conversations})
    IN  IF AuthReason(caller) # "" \/ request = NoRequest
        THEN Throw("There was an error accepting this request",
                   "There was an error accepting this request")
        ELSE Return([success |-> TRUE],
                [db EXCEPT
                    !.conversations = @ \cup
                        {[NoConversation EXCEPT !._id = conversationId]},
                    !.friendships = @ \o
                        <<[userId1 |-> currentUser._id, userId2 |-> request.senderId,
                           status |-> "accepted"]>>,
                    !.members = @ \o <<Row(conversationId, currentUser._id)>>
                                  \o <<Row(conversationId, request.senderId)>>,
                    !.requests = @ \ {request}])

acceptOutcome(caller, id) ==
    LET currentUser == getUserByClerkId(caller.subject)
        request == getRequest(id)
        conversationId == newId({c._id : c \in conversations})
        reason ==
            IF AuthReason(caller) # "" THEN AuthReason(caller)
            ELSE IF request = NoRequest \/ request.receiverId # currentUser._id
            THEN "There was an error accepting this request"
            ELSE ""
    IN  IF reason # "" THEN Throw(reason, Delivered(reason))
        ELSE Return([success |-> TRUE],
                [db EXCEPT
                    !.conversations = @ \cup
                        {[NoConversation EXCEPT !._id = conversationId]},
                    !.friendships = @ \o
                        <<[userId1 |-> currentUser._id, userId2 |-> request.senderId,
                           status |-> "accepted"]>>,
                    !.members = @ \o <<Row(conversationId, currentUser._id)>>
                                  \o <<Row(conversationId, request.senderId)>>,
                    !.requests = @ \ {request}])

accept ==
    \E caller \in Callers, id \in RequestArgs :
        LET o == acceptOutcome(caller, id)
        IN  /\ Fits(o.db)
            /\ Commit(o)

getAllOutcome(caller) ==
    LET currentUser == getUserByClerkId(caller.subject)
        pending == {r \in requests : r.receiverId = currentUser._id
                                     /\ r.status = "pending"}
    IN  IF caller = NoIdentity THEN Throw("Unauthorized", ServerError)
        ELSE IF currentUser = NoUserRow THEN Throw("User not found", "User not found")
        ELSE Return({[request |-> r, sender |-> getUser(r.senderId)] : r \in pending},
                    db)

getAll ==
    \E caller \in Callers :
        LET o == getAllOutcome(caller)
        IN  /\ Fits(o.db)
            /\ Commit(o)

\* ------------------------------------------------------------- messages
MessageTypes == {"text"}

NoMessage ==
    [_id |-> NoId, conversationId |-> NoId, senderId |-> NoUser, type |-> "",
     content |-> "", _creationTime |-> 0]

\* ctx.db.get(id) on the messages table
getMessage(id) ==
    IF \E m \in messages : m._id = id
    THEN CHOOSE m \in messages : m._id = id
    ELSE NoMessage

\* a member of a conversation posts a message: the message row is inserted
\* and the conversation's lastMessageId points to it
sendMessage ==
    \E caller \in Identities, cid \in ConversationArgs, type \in MessageTypes :
        LET currentUser == getUserByClerkId(caller.subject)
            conversation == getConversation(cid)
        IN  /\ nextMessageId <= MaxMessages
            /\ Fits([db EXCEPT !.messages = @ \cup {NoMessage}])
            /\ currentUser # NoUserRow
            /\ conversation # NoConversation
            /\ byMemberIdConversationId(currentUser._id, cid) # <<>>
            /\ messages' = messages \cup
                    {[_id |-> nextMessageId, conversationId |-> cid,
                      senderId |-> currentUser._id, type |-> type,
                      content |-> "hello", _creationTime |-> nextMessageId]}
            /\ conversations' = (conversations \ {conversation}) \cup
                    {[conversation EXCEPT !.lastMessageId = nextMessageId]}
            /\ nextMessageId' = nextMessageId + 1
            /\ UNCHANGED <<members, requests, friendships, call, match, history>>

\* ------------------------------------------- the handlers step by step
\* A mutation as the sequence of its steps in the order of the source: a
\* check throws when its reason is not "", a write changes one table. The
\* reads of a handler that follow its first write (ctx.db.get of a member
\* id) read the users table, which no handler writes, so every step is
\* known from the store the call starts with.
Check(reason) == [op |-> "check", arg |-> reason]
Insert(table, row) == [op |-> "insert", table |-> table, arg |-> row]
Patch(old, new) == [op |-> "patch", table |-> "conversations", arg |-> <<old, new>>]
Delete(table, row) == [op |-> "delete", table |-> table, arg |-> row]

\* the store d after the write w
Apply(d, w) ==
    IF w.op = "insert" /\ w.table = "conversations"
    THEN [d EXCEPT !.conversations = @ \cup {w.arg}]
    ELSE IF w.op = "insert" /\ w.table = "conversationMembers"
    THEN [d EXCEPT !.members = @ \o <<w.arg>>]
    ELSE IF w.op = "insert" /\ w.table = "friendships"
    THEN [d EXCEPT !.friendships = @ \o <<w.arg>>]
    ELSE IF w.op = "insert" /\ w.table = "requests"
    THEN [d EXCEPT !.requests = @ \cup {w.arg}]
    ELSE IF w.op = "patch"
    THEN [d EXCEPT !.conversations = (@ \ {w.arg[1]}) \cup {w.arg[2]}]
    ELSE IF w.op = "delete" /\ w.table = "conversationMembers"
    THEN [d EXCEPT !.members = DeleteFirst(@, w.arg)]
    ELSE IF w.op = "delete" /\ w.table = "messages"
    THEN [d EXCEPT !.messages = @ \ {w.arg}]
    ELSE IF w.op = "delete" /\ w.table = "requests"
    THEN [d EXCEPT !.requests = @ \ {w.arg}]
    ELSE IF w.op = "delete" /\ w.table = "conversations"
    THEN [d EXCEPT !.conversations = @ \ {w.arg}]
    ELSE d

RECURSIVE RunFrom(_, _, _)
\* the steps from the i-th on, applied to d one at a time with no rollback:
\* the run ends at the first check that throws or after the last step
RunFrom(steps, i, d) ==
    IF i > Len(steps) THEN [ok |-> TRUE, reason |-> "", db |-> d]
    ELSE IF steps[i].op = "check"
    THEN IF steps[i].arg # "" THEN [ok |-> FALSE, reason |-> steps[i].arg, db |-> d]
         ELSE RunFrom(steps, i + 1, d)
    ELSE RunFrom(steps, i + 1, Apply(d, steps[i]))

Run(steps) == RunFrom(steps, 1, db)

RECURSIVE SetToSeq(_)
\* the rows of a set in some order
SetToSeq(set) ==
    IF set = {} THEN <<>>
    ELSE LET x == CHOOSE y \in set : TRUE IN <<x>> \o SetToSeq(set \ {x})

RECURSIVE memberSteps(_, _, _)
\* the loops of createGroupChat (lines 472-481) and addGroupMembers (lines
\* 632-642): ctx.db.get of each id, then the insert of a row for a user that
\* is found and is not in existingMemberIds
memberSteps(cid, memberIds, existingMemberIds) ==
    IF memberIds = <<>> THEN <<>>
    ELSE <<Check(IF Head(memberIds) = Malformed THEN IdError ELSE "")>>
         \o (IF getUser(Head(memberIds)) # NoUserRow
                /\ Head(memberIds) \notin existingMemberIds
             THEN <<Insert("conversationMembers", Row(cid, Head(memberIds)))>>
             ELSE <<>>)
         \o memberSteps(cid, Tail(memberIds), existingMemberIds)

createGroupSteps(caller, name, memberIds) ==
    LET currentUser == getUserByClerkId(caller.subject)
        conversationId == newId({c._id : c \in conversations})
    IN  <<Check(AuthReason(caller)),
          Insert("conversations",
                 [_id |-> conversationId, isGroup |-> TRUE, name |-> name,
                  imageUrl |-> NoImage, creatorId |-> currentUser._id,
                  lastMessageId |-> NoId]),
          Insert("conversationMembers", Row(conversationId, currentUser._id))>>
        \o [i \in 1..Len(memberIds) |->
               Insert("conversationMembers", Row(conversationId, memberIds[i]))]

createGroupChatSteps(caller, name, memberIds, imageUrl) ==
    LET currentUser == getUserByClerkId(caller.subject)
        conversationId == newId({c._id : c \in conversations})
    IN  <<Check(AuthReason(caller)),
          Insert("conversations",
                 [_id |-> conversationId, isGroup |-> TRUE, name |-> name,
                  imageUrl |-> imageUrl, creatorId |-> currentUser._id,
                  lastMessageId |-> NoId]),
          Insert("conversationMembers", Row(conversationId, currentUser._id))>>
        \o memberSteps(conversationId, memberIds, {})

\* deleteGroupHandler: the membership rows, the messages, the conversation
deleteGroupSteps(cid) ==
    LET rows == byConversationId(cid)
    IN  [i \in 1..Len(rows) |-> Delete("conversationMembers", rows[i])]
        \o LET of == SetToSeq({m \in messages : m.conversationId = cid})
           IN  [i \in 1..Len(of) |-> Delete("messages", of[i])]
        \o <<Delete("conversations", getConversation(cid))>>

leaveGroupSteps(caller, cid) ==
    LET currentUser == getUserByClerkId(caller.subject)
        conversation == getConversation(cid)
        membership == byMemberIdConversationId(currentUser._id, cid)
        reason ==
            IF GroupReason(caller, cid) # "" THEN GroupReason(caller, cid)
            ELSE IF Len(membership) > 1 THEN UniqueError
            ELSE IF Len(membership) = 0 THEN "You are not a member of this group"
            ELSE ""
        isCreator == IsCreator(conversation, currentUser)
        otherMembers ==
            SelectSeq(byConversationId(cid), LAMBDA r : r.memberId # currentUser._id)
    IN  <<Check(reason)>>
        \o (IF reason # "" THEN <<>>
            ELSE IF isCreator /\ Len(otherMembers) = 0 THEN deleteGroupSteps(cid)
            ELSE (IF isCreator
                  THEN <<Patch(conversation,
                               [conversation EXCEPT
                                   !.creatorId = otherMembers[1].memberId])>>
                  ELSE <<>>)
                 \o <<Delete("conversationMembers", membership[1])>>)

deleteGroupStepsOf(caller, cid) ==
    LET reason == CreatorReason(caller, cid,
                      "Only the group creator can delete the group")
    IN  <<Check(reason)>> \o (IF reason # "" THEN <<>> ELSE deleteGroupSteps(cid))

updateGroupNameSteps(caller, cid, name) ==
    <<Check(CreatorReason(caller, cid,
                "Only the group creator can update the group name")),
      Patch(getConversation(cid), [getConversation(cid) EXCEPT !.name = name])>>

updateGroupImageSteps(caller, cid, imageUrl) ==
    <<Check(CreatorReason(caller, cid,
                "Only the group creator can update the group image")),
      Patch(getConversation(cid),
            [getConversation(cid) EXCEPT !.imageUrl = imageUrl])>>

addGroupMembersSteps(caller, cid, memberIds) ==
    LET existingMembers == byConversationId(cid)
    IN  <<Check(CreatorReason(caller, cid,
                    "Only the group creator can add members to the group"))>>
        \o memberSteps(cid, memberIds,
               {existingMembers[i].memberId : i \in 1..Len(existingMembers)})

removeGroupMemberSteps(caller, cid, memberId) ==
    LET conversation == getConversation(cid)
        memberToRemove == getUser(memberId)
        membership == byMemberIdConversationId(memberToRemove._id, cid)
        creatorReason == CreatorReason(caller, cid,
                      "Only the group creator can remove members from the group")
        reason ==
            IF creatorReason # "" THEN creatorReason
            ELSE IF memberId = Malformed THEN IdError
            ELSE IF memberToRemove = NoUserRow THEN "Member not found"
            ELSE IF memberToRemove._id = conversation.creatorId
            THEN "Cannot remove the group creator"
            ELSE IF Len(membership) > 1 THEN UniqueError
            ELSE IF Len(membership) = 0 THEN "This user is not a member of the group"
            ELSE ""
    IN  <<Check(reason)>>
        \o (IF reason # "" THEN <<>>
            ELSE <<Delete("conversationMembers", membership[1])>>)

\* lines 834-840 and 955-961: the row a request mutation inserts
requestRow(currentUser, receiver) ==
    [_id |-> newId({r._id : r \in requests}), senderId |-> currentUser._id,
     receiverId |-> receiver._id, status |-> "pending"]

createSteps(caller, email) ==
    LET currentUser == getUserByClerkId(caller.subject)
        receiver == userByEmail(email)
    IN  <<Check(IF caller = NoIdentity THEN "Unauthorized"
                ELSE IF trimEmail(email) = "" THEN "Email cannot be empty"
                ELSE IF email = caller.email THEN "Can't send a request to yourself"
                ELSE IF currentUser = NoUserRow THEN "User not found"
                ELSE IF receiver = NoUserRow THEN "User could not be found"
                ELSE PairReason(currentUser, receiver)),
          Insert("requests", requestRow(currentUser, receiver))>>

createByUsernameSteps(caller, username) ==
    LET currentUser == getUserByClerkId(caller.subject)
        normalizedInputUsername == toLowerCase(username)
        receiver == findUser(normalizedInputUsername)
    IN  <<Check(IF AuthReason(caller) # "" THEN AuthReason(caller)
                ELSE IF trim(username) = <<>> THEN "Username cannot be empty"
                ELSE IF ~usernameRegex(username)
                THEN "Username can only contain letters, numbers, underscores, periods, and hyphens"
                ELSE IF toLowerCase(currentUser.username) = normalizedInputUsername
                        \/ getCleanUsername(currentUser.username) = normalizedInputUsername
                THEN "Can't send a request to yourself"
                ELSE IF receiver = NoUserRow
                THEN "User with this username could not be found"
                ELSE PairReason(currentUser, receiver)),
          Insert("requests", requestRow(currentUser, receiver))>>

denySteps(caller, id) ==
    LET currentUser == getUserByClerkId(caller.subject)
        request == getRequest(id)
    IN  <<Check(IF AuthReason(caller) # "" THEN AuthReason(caller)
                ELSE IF request = NoRequest THEN "Request not found"
                ELSE IF request.receiverId # currentUser._id THEN "Request not found"
                ELSE ""),
          Delete("requests", request)>>

\* mutant: accept deletes the request before its inserts
acceptSteps_DeleteFirst(caller, id) ==
    LET currentUser == getUserByClerkId(caller.subject)
        request == getRequest(id)
        conversationId == newId({c._id : c \in conversations})
    IN  <<Check(IF AuthReason(caller) # "" THEN AuthReason(caller)
                ELSE IF request = NoRequest \/ request.receiverId # currentUser._id
                THEN "There was an error accepting this request"
                ELSE ""),
          Delete("requests", request),
          Insert("conversations", [NoConversation EXCEPT !._id = conversationId]),
          Insert("friendships",
                 [userId1 |-> currentUser._id, userId2 |-> request.senderId,
                  status |-> "accepted"]),
          Insert("conversationMembers", Row(conversationId, currentUser._id)),
          Insert("conversationMembers", Row(conversationId, request.senderId))>>

\* accept, lines 988-1023
acceptSteps(caller, id) ==
    LET currentUser == getUserByClerkId(caller.subject)
        request == getRequest(id)
        conversationId == newId({c._id : c \in conversations})
    IN  <<Check(IF AuthReason(caller) # "" THEN AuthReason(caller)
                ELSE IF request = NoRequest \/ request.receiverId # currentUser._id
                THEN "There was an error accepting this request"
                ELSE ""),
          Insert("conversations", [NoConversation EXCEPT !._id = conversationId]),
          Insert("friendships",
                 [userId1 |-> currentUser._id, userId2 |-> request.senderId,
                  status |-> "accepted"]),
          Insert("conversationMembers", Row(conversationId, currentUser._id)),
          Insert("conversationMembers", Row(conversationId, request.senderId)),
          Delete("requests", request)>>

\* -------------------------------------------------- conversation listing
getMessageContent(type, content) ==
    IF type = "text" THEN content
    ELSE IF type = "image" THEN "has sent an image."
    ELSE "has sent a document."

NoLastMessage == [content |-> "", sender |-> <<>>]

\* The reads conversations.get wraps in a try/catch of their own, each named
\* by its kind and the conversation it is made for; a call is evaluated for a
\* set of reads that throw.
ReadKinds ==
    {"conversation",    \* lines 50-55: ctx.db.get(membership.conversationId)
     "timestamp",       \* lines 63-71: ctx.db.get(conversation.lastMessageId)
     "memberships",     \* lines 103-111: the by_conversationId query
     "lastMessage",     \* lines 113-117, 185: the message of getLastMessageDetails
     "sender",          \* lines 188-193: the sender of the last message
     "member"}          \* lines 121-128, 137-143: ctx.db.get(membership.memberId)
Reads == ReadKinds \X ConversationArgs
FailureSets == {f \in SUBSET Reads : Cardinality(f) <= MaxFailures}

\* getLastMessageDetails for the last message id of conversation cid
getLastMessageDetails(cid, id, failed) ==
    IF id = NoId THEN NoLastMessage
    ELSE IF <<"lastMessage", cid>> \in failed THEN NoLastMessage
    ELSE IF getMessage(id) = NoMessage THEN NoLastMessage
    ELSE IF <<"sender", cid>> \in failed THEN NoLastMessage
    ELSE IF getUser(getMessage(id).senderId) = NoUserRow THEN NoLastMessage
    ELSE [content |-> getMessageContent(getMessage(id).type, getMessage(id).content),
          sender |-> getUser(getMessage(id).senderId).username]

\* lines 61-76: the conversation with the creation time of its last message
withTimestamp(conversation, failed) ==
    [conversation |-> conversation,
     lastMessageTimestamp |->
        IF conversation.lastMessageId # NoId
           /\ <<"timestamp", conversation._id>> \notin failed
           /\ getMessage(conversation.lastMessageId) # NoMessage
        THEN getMessage(conversation.lastMessageId)._creationTime
        ELSE 0]

\* insert x behind every element that does not sort after it
insertSorted(sorted, x) ==
    LET keep == {i \in 0..Len(sorted) :
                    \A j \in 1..i :
                        sorted[j].lastMessageTimestamp >= x.lastMessageTimestamp}
        k == CHOOSE i \in keep : \A j \in keep : j <= i
    IN  SubSeq(sorted, 1, k) \o <<x>> \o SubSeq(sorted, k + 1, Len(sorted))

\* mutant: the list is left in the order of the membership query
sortByTimestamp_Unsorted(list) == list

RECURSIVE sortByTimestamp(_)
\* Array.prototype.sort((a, b) => b.lastMessageTimestamp - a.lastMessageTimestamp):
\* descending and stable
sortByTimestamp(list) ==
    IF list = <<>> THEN <<>>
    ELSE insertSorted(sortByTimestamp(SubSeq(list, 1, Len(list) - 1)),
                      list[Len(list)])

\* lines 99-163: the details of one conversation, or null
NoDetails == [conversationId |-> NoId]

details(item, currentUser, failed) ==
    LET conversation == item.conversation
        all == byConversationId(conversation._id)
        lastMessage ==
            getLastMessageDetails(conversation._id, conversation.lastMessageId, failed)
        memberRows ==
            [i \in 1..Len(all) |->
                IF <<"member", conversation._id>> \in failed THEN NoUserRow
                ELSE getUser(all[i].memberId)]
        otherMemberships == SelectSeq(all, LAMBDA r : r.memberId # currentUser._id)
    IN  IF <<"memberships", conversation._id>> \in failed THEN NoDetails
        ELSE IF conversation.isGroup
        THEN [conversationId |-> conversation._id,
              lastMessageTimestamp |-> item.lastMessageTimestamp,
              lastMessage |-> lastMessage,
              otherMember |-> NoUser,
              groupMembers |->
                  LET found == SelectSeq(memberRows, LAMBDA u : u # NoUserRow
                                                              /\ u.username # <<>>)
                  IN  [i \in 1..Len(found) |-> found[i].username]]
        ELSE IF otherMemberships = <<>> THEN NoDetails
        ELSE IF <<"member", conversation._id>> \in failed THEN NoDetails
        ELSE IF getUser(otherMemberships[1].memberId) = NoUserRow THEN NoDetails
        ELSE [conversationId |-> conversation._id,
              lastMessageTimestamp |-> item.lastMessageTimestamp,
              lastMessage |-> lastMessage,
              otherMember |-> otherMemberships[1].memberId,
              groupMembers |-> <<>>]

\* mutant: a read that throws is not caught beside the item it is made for,
\* so the catch of the whole handler answers with the empty list
getOutcomeWhen_WholeCallFails(caller, failed) ==
    LET currentUser == getUserByClerkId(caller.subject)
        conversationMemberships == byMemberId(currentUser._id)
        fetched == SelectSeq(conversationMemberships,
                       LAMBDA r : getConversation(r.conversationId) # NoConversation)
        sorted ==
            sortByTimestamp([i \in 1..Len(fetched) |->
                withTimestamp(getConversation(fetched[i].conversationId), {})])
        conversationsWithDetails ==
            [i \in 1..Len(sorted) |-> details(sorted[i], currentUser, {})]
    IN  IF AuthReason(caller) # "" \/ failed # {} THEN Return(<<>>, db)
        ELSE Return(SelectSeq(conversationsWithDetails, LAMBDA d : d # NoDetails), db)

\* the list conversations.get returns when the reads of failed throw; every
\* error outside the per-item handlers is caught and gives []
getOutcomeWhen(caller, failed) ==
    LET currentUser == getUserByClerkId(caller.subject)
        conversationMemberships == byMemberId(currentUser._id)
        fetched == SelectSeq(conversationMemberships,
                       LAMBDA r : r.conversationId # NoId
                                  /\ <<"conversation", r.conversationId>> \notin failed
                                  /\ getConversation(r.conversationId) # NoConversation)
        filteredConversations ==
            [i \in 1..Len(fetched) |->
                withTimestamp(getConversation(fetched[i].conversationId), failed)]
        sorted == sortByTimestamp(filteredConversations)
        conversationsWithDetails ==
            [i \in 1..Len(sorted) |-> details(sorted[i], currentUser, failed)]
    IN  IF AuthReason(caller) # "" THEN Return(<<>>, db)
        ELSE Return(SelectSeq(conversationsWithDetails, LAMBDA d : d # NoDetails), db)

\* the call in which no read throws
getOutcome(caller) == getOutcomeWhen(caller, {})

get ==
    \E caller \in Callers, failed \in FailureSets :
        LET o == getOutcomeWhen(caller, failed)
        IN  /\ Fits(o.db)
            /\ Commit(o)

\* ----------------------------------------------------------- the system
Next ==
    \/ get
    \/ createGroup
    \/ createGroupChat
    \/ leaveGroup
    \/ deleteGroup
    \/ isGroupCreator
    \/ updateGroupName
    \/ updateGroupImage
    \/ addGroupMembers
    \/ removeGroupMember
    \/ getAll
    \/ create
    \/ createByUsername
    \/ deny
    \/ accept
    \/ sendMessage

Spec == Init /\ [][Next]_vars

\* ------------------------------------- the request lifecycle with history
\* The same request mutations, with the history of denials kept beside the
\* store: deny records the pair of the request it deleted, a create that
\* succeeds for a recorded pair is a re-send.
Resent(o, sender, receiver) ==
    IF o.ok /\ <<sender._id, receiver._id>> \in history.denied
    THEN [denied |-> history.denied \ {<<sender._id, receiver._id>>},
          resends |-> history.resends + 1]
    ELSE history

createResend ==
    \E caller \in Callers, email \in EmailArgs :
        LET o == createOutcome(caller, email)
            h == Resent(o, getUserByClerkId(caller.subject), userByEmail(email))
        IN  /\ Fits(o.db)
            /\ h.resends <= MaxResends
            /\ Store(o)
            /\ UNCHANGED <<call, match>>
            /\ history' = h

createByUsernameResend ==
    \E caller \in Callers, username \in UsernameArgs :
        LET o == createByUsernameOutcome(caller, username)
            h == Resent(o, getUserByClerkId(caller.subject),
                        findUser(toLowerCase(username)))
        IN  /\ Fits(o.db)
            /\ h.resends <= MaxResends
            /\ Store(o)
            /\ UNCHANGED <<call, match>>
            /\ history' = h

denyResend ==
    \E caller \in Callers, id \in RequestArgs :
        LET o == denyOutcome(caller, id)
            request == getRequest(id)
        IN  /\ Fits(o.db)
            /\ Store(o)
            /\ UNCHANGED <<call, match>>
            /\ history' =
                  IF o.ok
                  THEN [history EXCEPT
                           !.denied = @ \cup {<<request.senderId, request.receiverId>>}]
                  ELSE history

NextResend ==
    \/ createResend
    \/ createByUsernameResend
    \/ denyResend
    \/ accept
    \/ getAll

SpecResend == Init /\ [][NextResend]_vars

\* ------------------------------------------ accept, one write at a time
\* An accept whose checks passed applies the writes of acceptSteps one by
\* one; it may stop after any of them, and nothing is rolled back.
acceptBegin ==
    \E caller \in Callers, id \in RequestArgs :
        /\ call = NoCall
        /\ acceptSteps(caller, id)[1].arg = ""
        /\ call' = [steps |-> acceptSteps(caller, id), pc |-> 1, request |-> id]
        /\ UNCHANGED <<conversations, members, messages, requests, friendships,
                       nextMessageId, match, history>>

acceptWrite ==
    /\ call # NoCall
    /\ LET d == Apply(db, call.steps[call.pc + 1])
       IN  /\ Fits(d)
           /\ conversations' = d.conversations
           /\ members' = d.members
           /\ messages' = d.messages
           /\ requests' = d.requests
           /\ friendships' = d.friendships
    /\ call' = IF call.pc + 1 = Len(call.steps) THEN NoCall
               ELSE [call EXCEPT !.pc = @ + 1]
    /\ UNCHANGED <<nextMessageId, match, history>>

acceptStop ==
    /\ call # NoCall
    /\ call' = NoCall
    /\ UNCHANGED <<conversations, members, messages, requests, friendships,
                   nextMessageId, match, history>>

NextAccept ==
    \/ create
    \/ createByUsername
    \/ acceptBegin
    \/ acceptWrite
    \/ acceptStop

SpecAccept == Init /\ [][NextAccept]_vars

\* ---------------------------------------------- matching of one username
\* The predicate of allUsers.find for one stored username and one input that
\* createByUsername lets through to the scan.
StoredChars == {"a", "B", "2", " ", CROWN, SHIELD, VS16, GRIN}
StoredNames == UNION {[1..n -> StoredChars] : n \in 0..MaxStoredLen}

InitUsername ==
    /\ EmptyStore
    /\ match \in [stored : StoredNames, input : UsernameArgs, resolved : {"none"}]

resolveUsername ==
    /\ match.resolved = "none"
    /\ match' =
          [match EXCEPT !.resolved =
              IF trim(match.input) = <<>> \/ ~usernameRegex(match.input)
              THEN "refused"
              ELSE IF usernameMatches([username |-> match.stored],
                                      toLowerCase(match.input))
              THEN "yes"
              ELSE "no"]
    /\ UNCHANGED <<conversations, members, messages, requests, friendships,
                   nextMessageId, call, history>>

NextUsername == resolveUsername

SpecUsername == InitUsername /\ [][NextUsername]_vars

\* ------------------------------------- the two readings of a mutation agree
\* The steps of a mutation run to the end commit the store of its outcome,
\* and they throw for the reason of its outcome.
Agree(r, o) ==
    /\ r.ok = o.ok
    /\ r.reason = o.reason
    /\ o.ok => r.db = o.db

StepsAgree ==
    \A caller \in Callers :
        /\ \A name \in Names :
              /\ \A memberIds \in MemberIdLists :
                    Agree(Run(createGroupSteps(caller, name, memberIds)),
                          createGroupOutcome(caller, name, memberIds))
              /\ \A memberIds \in StringIdLists, imageUrl \in Images \cup {NoImage} :
                    Agree(Run(createGroupChatSteps(caller, name, memberIds, imageUrl)),
                          createGroupChatOutcome(caller, name, memberIds, imageUrl))
        /\ \A cid \in ConversationArgs :
              /\ Agree(Run(leaveGroupSteps(caller, cid)), leaveGroupOutcome(caller, cid))
              /\ Agree(Run(deleteGroupStepsOf(caller, cid)), deleteGroupOutcome(caller, cid))
              /\ \A name \in Names :
                    Agree(Run(updateGroupNameSteps(caller, cid, name)),
                          updateGroupNameOutcome(caller, cid, name))
              /\ \A imageUrl \in Images :
                    Agree(Run(updateGroupImageSteps(caller, cid, imageUrl)),
                          updateGroupImageOutcome(caller, cid, imageUrl))
              /\ \A memberIds \in StringIdLists :
                    Agree(Run(addGroupMembersSteps(caller, cid, memberIds)),
                          addGroupMembersOutcome(caller, cid, memberIds))
              /\ \A memberId \in MemberIdArgs :
                    Agree(Run(removeGroupMemberSteps(caller, cid, memberId)),
                          removeGroupMemberOutcome(caller, cid, memberId))
        /\ \A email \in EmailArgs :
              Agree(Run(createSteps(caller, email)), createOutcome(caller, email))
        /\ \A username \in UsernameArgs :
              Agree(Run(createByUsernameSteps(caller, username)),
                    createByUsernameOutcome(caller, username))
        /\ \A id \in RequestArgs :
              /\ Agree(Run(acceptSteps(caller, id)), acceptOutcome(caller, id))
              /\ Agree(Run(denySteps(caller, id)), denyOutcome(caller, id))

\* =============================================================== claims
\* rows of a store d, counted the way the claims speak of them
FriendshipRows(d, a, b) ==
    {i \in 1..Len(d.friendships) :
        {d.friendships[i].userId1, d.friendships[i].userId2} = {a, b}}

MemberRows(d, cid) ==
    {i \in 1..Len(d.members) : d.members[i].conversationId = cid}

\* the non-group conversations of d whose membership rows are one row for a
\* and one row for b
DirectConversations(d, a, b) ==
    {c \in d.conversations :
        /\ ~c.isGroup
        /\ Cardinality(MemberRows(d, c._id)) = 2
        /\ \E i, j \in MemberRows(d, c._id) :
              d.members[i].memberId = a /\ d.members[j].memberId = b}

RequestsBetween(d, a, b) ==
    {r \in d.requests : r.senderId = a /\ r.receiverId = b}

\* C1: when the receiver B of a pending request A -> B accepts it, the store
\* the call leaves holds exactly one friendship row for {A,B}, exactly one
\* non-group conversation whose membership rows are one row for A and one for
\* B, and no longer the request row; and this stays so for every pair that
\* has become friends.
C1_AcceptResult ==
    /\ \A caller \in Callers, id \in RequestArgs :
          LET o == acceptOutcome(caller, id)
              r == getRequest(id)
          IN  (o.ok /\ r.senderId # r.receiverId) =>
                /\ r \in requests
                /\ Cardinality(FriendshipRows(o.db, r.senderId, r.receiverId)) = 1
                /\ Cardinality(DirectConversations(o.db, r.senderId, r.receiverId)) = 1
                /\ \A x \in o.db.requests : x._id # id
                /\ r \notin o.db.requests
    /\ \A a, b \in UserIds :
          (a # b /\ FriendshipRows(db, a, b) # {}) =>
                /\ Cardinality(FriendshipRows(db, a, b)) = 1
                /\ Cardinality(DirectConversations(db, a, b)) = 1

\* a request has been accepted: the pair is friends and has its conversation
C1_Witness ==
    \E a, b \in UserIds :
        /\ a # b
        /\ FriendshipRows(db, a, b) # {}
        /\ DirectConversations(db, a, b) # {}
        /\ requests = {}

\* C2: no two users have pending requests to each other in both directions.
C2_NoMutualRequests ==
    \A a, b \in UserIds :
        a # b => ~(RequestsBetween(db, a, b) # {} /\ RequestsBetween(db, b, a) # {})

\* a request a -> b is stored and b's own request to a is refused
C2_Witness ==
    \E r \in requests :
        /\ r.senderId # r.receiverId
        /\ \E caller \in Identities :
              /\ getUserByClerkId(caller.subject)._id = r.receiverId
              /\ ~createOutcome(caller, getUser(r.senderId).email).ok

\* C3: no pair of users has both a friendship row (in either order) and a
\* pending request (in either direction).
C3_FriendshipExcludesRequest ==
    \A a, b \in UserIds :
        ~(/\ FriendshipRows(db, a, b) # {}
          /\ RequestsBetween(db, a, b) \cup RequestsBetween(db, b, a) # {})

\* two users are friends and a new request between them is refused
C3_Witness ==
    \E a, b \in UserIds :
        /\ a # b
        /\ FriendshipRows(db, a, b) # {}
        /\ \E caller \in Identities :
              /\ getUserByClerkId(caller.subject)._id = a
              /\ ~createOutcome(caller, getUser(b).email).ok

\* C4: create and createByUsername called by A and resolving to receiver B
\* fail with "Request already sent" when a request A -> B is stored and with
\* "This user has already sent you a request" when a request B -> A is
\* stored, and add no request row.
C4_Refused(o, a, b) ==
    /\ RequestsBetween(db, a, b) # {} =>
          ~o.ok /\ o.msg = "Request already sent" /\ o.db.requests = requests
    /\ RequestsBetween(db, b, a) # {} =>
          /\ ~o.ok
          /\ o.msg = "This user has already sent you a request"
          /\ o.db.requests = requests

C4_DuplicateRequestRefused ==
    \A caller \in Identities :
        LET a == getUserByClerkId(caller.subject)
        IN  a # NoUserRow =>
              /\ \A email \in EmailArgs :
                    LET b == userByEmail(email)
                    IN  (b # NoUserRow /\ b # a) =>
                            C4_Refused(createOutcome(caller, email), a._id, b._id)
              /\ \A username \in UsernameArgs :
                    LET b == findUser(toLowerCase(username))
                    IN  (usernameRegex(username) /\ b # NoUserRow /\ b # a) =>
                            C4_Refused(createByUsernameOutcome(caller, username),
                                       a._id, b._id)

\* a request is stored, and its sender can name the receiver both by email
\* and by username
C4_Witness ==
    \E r \in requests, caller \in Identities, username \in UsernameArgs :
        /\ getUserByClerkId(caller.subject)._id = r.senderId
        /\ r.senderId # r.receiverId
        /\ usernameRegex(username)
        /\ findUser(toLowerCase(username))._id = r.receiverId
        /\ createByUsernameOutcome(caller, username).msg = "Request already sent"
        /\ createOutcome(caller, getUser(r.receiverId).email).msg = "Request already sent"

\* the member ids of the membership rows of conversation cid in d
MemberIdsOf(d, cid) == {d.members[i].memberId : i \in MemberRows(d, cid)}

\* C5: the creatorId of every group conversation names a user who has a
\* membership row in that group; when a creator leaves while other members
\* remain, the creatorId the call leaves is one of the remaining members and
\* not the user who left.
C5_CreatorIsMember ==
    /\ \A c \in conversations : c.isGroup => c.creatorId \in MemberIdsOf(db, c._id)
    /\ \A caller \in Callers, cid \in ConversationArgs :
          LET o == leaveGroupOutcome(caller, cid)
              u == getUserByClerkId(caller.subject)
              c == getConversation(cid)
          IN  (/\ o.ok
               /\ c.isGroup
               /\ c.creatorId = u._id
               /\ MemberIdsOf(db, cid) \ {u._id} # {}) =>
                    \E c2 \in o.db.conversations :
                        /\ c2._id = cid
                        /\ c2.creatorId # u._id
                        /\ c2.creatorId \in MemberIdsOf(o.db, cid)
                        /\ u._id \notin MemberIdsOf(o.db, cid)

\* a creator with other members in the group leaves it
C5_Witness ==
    \E caller \in Callers, cid \in ConversationArgs :
        /\ getConversation(cid).isGroup
        /\ getConversation(cid).creatorId = getUserByClerkId(caller.subject)._id
        /\ Cardinality(MemberIdsOf(db, cid)) >= 3
        /\ leaveGroupOutcome(caller, cid).ok

\* C6: leaveGroup called by a creator who is the only member of the group
\* deletes the conversation row, every membership row and every message of
\* the conversation, and returns success.
C6_SoleCreatorLeaveDeletes ==
    \A caller \in Callers, cid \in ConversationArgs :
        LET o == leaveGroupOutcome(caller, cid)
            u == getUserByClerkId(caller.subject)
            c == getConversation(cid)
        IN  (/\ u # NoUserRow
             /\ c.isGroup
             /\ c.creatorId = u._id
             /\ MemberIdsOf(db, cid) = {u._id}) =>
                /\ o.ok
                /\ o.value = [success |-> TRUE]
                /\ \A c2 \in o.db.conversations : c2._id # cid
                /\ MemberRows(o.db, cid) = {}
                /\ \A m \in o.db.messages : m.conversationId # cid

\* C7: after deleteGroup by the creator succeeds, the conversation row is
\* gone, no membership row and no message of that conversation remains, and
\* the rows of every other conversation are unchanged.
C7_DeleteGroupCascades ==
    \A caller \in Callers, cid \in ConversationArgs :
        LET o == deleteGroupOutcome(caller, cid)
        IN  o.ok =>
                /\ \A c \in o.db.conversations : c._id # cid
                /\ MemberRows(o.db, cid) = {}
                /\ \A m \in o.db.messages : m.conversationId # cid
                /\ o.db.conversations = {c \in conversations : c._id # cid}
                /\ o.db.members = SelectSeq(members, LAMBDA r : r.conversationId # cid)
                /\ o.db.messages = {m \in messages : m.conversationId # cid}
                /\ o.db.requests = requests
                /\ o.db.friendships = friendships

\* the creator deletes a group that has a message while another
\* conversation with members is stored
C7_Witness ==
    \E caller \in Callers, cid \in ConversationArgs :
        /\ deleteGroupOutcome(caller, cid).ok
        /\ \E m \in messages : m.conversationId = cid
        /\ \E c \in conversations : c._id # cid /\ MemberRows(db, c._id) # {}

\* C8: removeGroupMember whose target is the group's current creator never
\* succeeds, whoever calls, and the creator's membership row is still there.
C8_CreatorNotRemovable ==
    \A caller \in Callers, cid \in ConversationArgs, memberId \in MemberIdArgs :
        LET o == removeGroupMemberOutcome(caller, cid, memberId)
            c == getConversation(cid)
        IN  (c.isGroup /\ memberId = c.creatorId) =>
                /\ ~o.ok
                /\ memberId \in MemberIdsOf(o.db, cid)

\* the creator of a group with another member asks to remove the creator
C8_Witness ==
    \E caller \in Callers, cid \in ConversationArgs :
        LET c == getConversation(cid)
        IN  /\ c.isGroup
            /\ c.creatorId = getUserByClerkId(caller.subject)._id
            /\ MemberIdsOf(db, cid) \ {c.creatorId} # {}
            /\ removeGroupMemberOutcome(caller, cid, c.creatorId).reason
                   = "Cannot remove the group creator"

\* C9: updateGroupName, updateGroupImage, addGroupMembers, removeGroupMember
\* and deleteGroup fail and leave the store unchanged whenever the caller is
\* not the conversation's stored creator, member of the group or not.
C9_Refused(o) == ~o.ok /\ o.db = db

C9_OnlyCreatorManages ==
    \A caller \in Callers, cid \in ConversationArgs :
        LET u == getUserByClerkId(caller.subject)
            c == getConversation(cid)
        IN  (u = NoUserRow \/ c.creatorId # u._id) =>
                /\ \A name \in Names : C9_Refused(updateGroupNameOutcome(caller, cid, name))
                /\ \A imageUrl \in Images :
                      C9_Refused(updateGroupImageOutcome(caller, cid, imageUrl))
                /\ \A memberIds \in StringIdLists :
                      C9_Refused(addGroupMembersOutcome(caller, cid, memberIds))
                /\ \A memberId \in MemberIdArgs :
                      C9_Refused(removeGroupMemberOutcome(caller, cid, memberId))
                /\ C9_Refused(deleteGroupOutcome(caller, cid))

\* a member of a group who is not its creator is refused
C9_Witness ==
    \E caller \in Callers, cid \in ConversationArgs :
        LET u == getUserByClerkId(caller.subject)
            c == getConversation(cid)
        IN  /\ c.isGroup
            /\ u._id \in MemberIdsOf(db, cid)
            /\ c.creatorId # u._id
            /\ updateGroupNameOutcome(caller, cid, "n2").reason
                   = "Only the group creator can update the group name"
            /\ deleteGroupOutcome(caller, cid).reason
                   = "Only the group creator can delete the group"

\* C10 as claimed: every function called without an identity ends in an
\* error and writes nothing.
C10_Error(o) == ~o.ok /\ o.db = db

C10_MutationsRefuseAnonymous ==
    /\ \A name \in Names, memberIds \in MemberIdLists :
          C10_Error(createGroupOutcome(NoIdentity, name, memberIds))
    /\ \A cid \in ConversationArgs :
          /\ C10_Error(leaveGroupOutcome(NoIdentity, cid))
          /\ C10_Error(deleteGroupOutcome(NoIdentity, cid))
          /\ \A name \in Names : C10_Error(updateGroupNameOutcome(NoIdentity, cid, name))
          /\ \A imageUrl \in Images :
                C10_Error(updateGroupImageOutcome(NoIdentity, cid, imageUrl))
          /\ \A memberIds \in StringIdLists :
                C10_Error(addGroupMembersOutcome(NoIdentity, cid, memberIds))
          /\ \A memberId \in MemberIdArgs :
                C10_Error(removeGroupMemberOutcome(NoIdentity, cid, memberId))
    /\ C10_Error(getAllOutcome(NoIdentity))
    /\ \A email \in EmailArgs : C10_Error(createOutcome(NoIdentity, email))
    /\ \A username \in UsernameArgs :
          C10_Error(createByUsernameOutcome(NoIdentity, username))
    /\ \A id \in RequestArgs :
          /\ C10_Error(acceptOutcome(NoIdentity, id))
          /\ C10_Error(denyOutcome(NoIdentity, id))

C10_AllFailUnauthenticated ==
    /\ C10_MutationsRefuseAnonymous
    /\ C10_Error(getOutcome(NoIdentity))
    /\ \A cid \in ConversationArgs : C10_Error(isGroupCreatorOutcome(NoIdentity, cid))

\* C10 amended: the mutations and getAll end in an error and write nothing;
\* the queries get and isGroupCreator return [] and false and write nothing.
C10_UnauthenticatedWritesNothing ==
    /\ C10_MutationsRefuseAnonymous
    /\ getOutcome(NoIdentity) = Return(<<>>, db)
    /\ \A cid \in ConversationArgs :
          isGroupCreatorOutcome(NoIdentity, cid) = Return(FALSE, db)

\* a group and a request are stored while a call without identity is made
C10_Witness ==
    /\ \E c \in conversations : c.isGroup /\ ~deleteGroupOutcome(NoIdentity, c._id).ok
    /\ \E r \in requests : ~acceptOutcome(NoIdentity, r._id).ok
    /\ getOutcome(NoIdentity).ok

\* the reasons the five creator-only mutations throw for another caller
CreatorOnlyReasons ==
    {"Only the group creator can update the group name",
     "Only the group creator can update the group image",
     "Only the group creator can add members to the group",
     "Only the group creator can remove members from the group",
     "Only the group creator can delete the group"}

\* an authenticated stored user calls on a group whose creator is someone else
C11_NotCreator(caller, cid) ==
    /\ getUserByClerkId(caller.subject) # NoUserRow
    /\ getConversation(cid).isGroup
    /\ getConversation(cid).creatorId # getUserByClerkId(caller.subject)._id

\* C11: when updateGroupName, updateGroupImage, addGroupMembers,
\* removeGroupMember or deleteGroup rejects a caller who is not the creator,
\* the message the caller receives is the reason that starts with
\* "Only the group creator can".
C11_CreatorReasonDelivered ==
    \A caller \in Callers, cid \in ConversationArgs :
        C11_NotCreator(caller, cid) =>
            /\ \A name \in Names :
                  updateGroupNameOutcome(caller, cid, name).msg \in CreatorOnlyReasons
            /\ \A imageUrl \in Images :
                  updateGroupImageOutcome(caller, cid, imageUrl).msg \in CreatorOnlyReasons
            /\ \A memberIds \in StringIdLists :
                  addGroupMembersOutcome(caller, cid, memberIds).msg \in CreatorOnlyReasons
            /\ \A memberId \in MemberIdArgs :
                  removeGroupMemberOutcome(caller, cid, memberId).msg
                      \in CreatorOnlyReasons
            /\ deleteGroupOutcome(caller, cid).msg \in CreatorOnlyReasons

\* C12: addGroupMembers called by the creator succeeds for every memberIds
\* list, appends membership rows only for users who were not members, one row
\* for each, and returns addedCount equal to the number of users who were not
\* members before the call and are members after it.
C12_AddedCountIsNewMembers ==
    \A caller \in Callers, cid \in ConversationArgs, memberIds \in MemberIdLists :
        LET o == addGroupMembersOutcome(caller, cid, memberIds)
            u == getUserByClerkId(caller.subject)
            c == getConversation(cid)
            before == MemberIdsOf(db, cid)
            after == MemberIdsOf(o.db, cid)
        IN  (u # NoUserRow /\ c.isGroup /\ c.creatorId = u._id) =>
                /\ o.ok
                /\ SubSeq(o.db.members, 1, Len(members)) = members
                /\ \A i \in (Len(members) + 1)..Len(o.db.members) :
                      /\ o.db.members[i].conversationId = cid
                      /\ o.db.members[i].memberId \notin before
                /\ o.value.addedCount = Cardinality(after \ before)

\* C13: after createGroup(name, memberIds) succeeds the new conversation has
\* isGroup = true and creatorId = caller, and its membership rows are exactly
\* one row for each user of {caller} united with memberIds.
C13_CreateGroupRows ==
    \A caller \in Callers, name \in Names, memberIds \in MemberIdLists :
        LET o == createGroupOutcome(caller, name, memberIds)
            u == getUserByClerkId(caller.subject)
            wanted == {u._id} \cup {memberIds[i] : i \in 1..Len(memberIds)}
        IN  o.ok =>
                /\ \E c \in o.db.conversations :
                      c._id = o.value /\ c.isGroup /\ c.creatorId = u._id
                /\ MemberIdsOf(o.db, o.value) = wanted
                /\ Cardinality(MemberRows(o.db, o.value)) = Cardinality(wanted)

\* C14: there is at most one conversationMembers row for each
\* (conversation, member) pair.
C14_UniqueMembership ==
    \A i, j \in 1..Len(members) : i # j => members[i] # members[j]

\* the group mutations called on a conversation that is not a group
C15_GroupCallsRefused(cid) ==
    \A caller \in Callers :
        /\ C9_Refused(leaveGroupOutcome(caller, cid))
        /\ C9_Refused(deleteGroupOutcome(caller, cid))
        /\ \A name \in Names : C9_Refused(updateGroupNameOutcome(caller, cid, name))
        /\ \A imageUrl \in Images :
              C9_Refused(updateGroupImageOutcome(caller, cid, imageUrl))
        /\ \A memberIds \in MemberIdLists :
              C9_Refused(addGroupMembersOutcome(caller, cid, memberIds))
        /\ \A memberId \in MemberIdArgs :
              C9_Refused(removeGroupMemberOutcome(caller, cid, memberId))

\* C15: each non-group conversation has exactly two membership rows, of two
\* distinct users, and no creatorId; leaveGroup, deleteGroup, updateGroupName,
\* updateGroupImage, addGroupMembers and removeGroupMember called on it by
\* any user change nothing.
C15_DirectConversationShape ==
    \A c \in conversations :
        ~c.isGroup =>
            /\ Cardinality(MemberRows(db, c._id)) = 2
            /\ Cardinality(MemberIdsOf(db, c._id)) = 2
            /\ c.creatorId = NoUser
            /\ C15_GroupCallsRefused(c._id)

\* C16: leaveGroup called by a member of a group who is not its creator
\* succeeds, deletes the caller's membership in that group and leaves the
\* conversation rows, every other membership row and every message unchanged.
C16_MemberLeaveFrame ==
    \A caller \in Callers, cid \in ConversationArgs :
        LET o == leaveGroupOutcome(caller, cid)
            u == getUserByClerkId(caller.subject)
            c == getConversation(cid)
        IN  (/\ u # NoUserRow
             /\ c.isGroup
             /\ c.creatorId # u._id
             /\ u._id \in MemberIdsOf(db, cid)) =>
                /\ o.ok
                /\ u._id \notin MemberIdsOf(o.db, cid)
                /\ o.db.conversations = conversations
                /\ o.db.messages = messages
                /\ SelectSeq(o.db.members, LAMBDA r : r # Row(cid, u._id))
                       = SelectSeq(members, LAMBDA r : r # Row(cid, u._id))

\* C17: deny called by the receiver of a stored request deletes exactly that
\* request row and creates no friendship, conversation or membership row.
C17_DenyDeletesOnlyRequest ==
    \A caller \in Callers, id \in RequestArgs :
        LET o == denyOutcome(caller, id)
            u == getUserByClerkId(caller.subject)
            r == getRequest(id)
        IN  (u # NoUserRow /\ r # NoRequest /\ r.receiverId = u._id) =>
                /\ o.ok
                /\ o.db = [db EXCEPT !.requests = @ \ {r}]
                /\ r \notin o.db.requests

\* the receiver denies one of two stored requests while a friendship and a
\* conversation are stored
C17_Witness ==
    \E caller \in Callers, id \in RequestArgs :
        /\ getRequest(id) # NoRequest
        /\ getRequest(id).receiverId = getUserByClerkId(caller.subject)._id
        /\ denyOutcome(caller, id).ok
        /\ Cardinality(requests) = 2
        /\ conversations # {}

\* C18: accept and deny of a stored request called by anyone other than its
\* receiver, its sender included, fail and leave requests, friendships,
\* conversations and memberships unchanged.
C18_OnlyReceiverDecides ==
    \A caller \in Callers, id \in RequestArgs :
        LET u == getUserByClerkId(caller.subject)
            r == getRequest(id)
        IN  (r # NoRequest /\ (u = NoUserRow \/ r.receiverId # u._id)) =>
                /\ ~acceptOutcome(caller, id).ok
                /\ acceptOutcome(caller, id).db = db
                /\ ~denyOutcome(caller, id).ok
                /\ denyOutcome(caller, id).db = db

\* the sender of a stored request tries to accept it and to deny it
C18_Witness ==
    \E caller \in Identities, r \in requests :
        /\ r.senderId = getUserByClerkId(caller.subject)._id
        /\ r.receiverId # r.senderId
        /\ ~acceptOutcome(caller, r._id).ok
        /\ ~denyOutcome(caller, r._id).ok

\* the store of outcome o is the store plus one pending request a -> b
C19_Stored(o, a, b) ==
    /\ o.ok
    /\ \E r \in o.db.requests :
          /\ r.senderId = a /\ r.receiverId = b /\ r.status = "pending"
          /\ r \notin requests
          /\ o.db = [db EXCEPT !.requests = @ \cup {r}]

\* C19: after B denied a request from A, if A and B are not friends and no
\* request B -> A is stored, create and createByUsername from A naming B
\* succeed and store a pending request A -> B again, however many times the
\* request was denied and sent again before.
C19_ResendAfterDeny ==
    \A a, b \in UserIds :
        (/\ <<a, b>> \in history.denied
         /\ a # b
         /\ FriendshipRows(db, a, b) = {}
         /\ RequestsBetween(db, b, a) = {}) =>
            \A caller \in Identities :
                getUserByClerkId(caller.subject)._id = a =>
                    /\ C19_Stored(createOutcome(caller, getUser(b).email), a, b)
                    /\ \A username \in UsernameArgs :
                          (/\ usernameRegex(username)
                           /\ findUser(toLowerCase(username))._id = b) =>
                              C19_Stored(createByUsernameOutcome(caller, username), a, b)

\* a request was denied and sent again twice, is denied a third time and can
\* be sent once more
C19_Witness ==
    /\ history.resends = MaxResends
    /\ \E a, b \in UserIds :
          /\ a # b
          /\ <<a, b>> \in history.denied
          /\ \E caller \in Identities, username \in UsernameArgs :
                /\ getUserByClerkId(caller.subject)._id = a
                /\ createOutcome(caller, getUser(b).email).ok
                /\ findUser(toLowerCase(username))._id = b
                /\ createByUsernameOutcome(caller, username).ok

\* C20: create fails whenever the receiver resolved from the email is the
\* caller's own user record, createByUsername fails whenever the user it
\* resolves is the caller, and no stored request has senderId = receiverId.
C20_NoSelfRequest ==
    /\ \A caller \in Identities :
          LET u == getUserByClerkId(caller.subject)
          IN  u # NoUserRow =>
                /\ \A email \in EmailArgs :
                      userByEmail(email) = u => ~createOutcome(caller, email).ok
                /\ \A username \in UsernameArgs :
                      findUser(toLowerCase(username)) = u =>
                          ~createByUsernameOutcome(caller, username).ok
    /\ \A r \in requests : r.senderId # r.receiverId


\* the list conversations.get returns to a caller when the reads of failed
\* throw
C21_List(caller, failed) == getOutcomeWhen(caller, failed).value

\* the first position of conversation cid in the caller's membership query
C21_QueryPosition(caller, cid) ==
    LET rows == byMemberId(getUserByClerkId(caller.subject)._id)
    IN  CHOOSE p \in 1..Len(rows) :
            /\ rows[p].conversationId = cid
            /\ \A q \in 1..(p - 1) : rows[q].conversationId # cid

\* C21: the list conversations.get returns is in non-increasing order of the
\* creation time of the last message, a conversation without a (fetchable)
\* last message counting as time 0, and conversations of equal time keep the
\* order of the caller's membership query.
C21_SortedByLastMessage ==
    \A caller \in Callers, failed \in FailureSets :
        LET l == C21_List(caller, failed)
        IN  /\ \A i \in 1..Len(l) :
                  LET c == getConversation(l[i].conversationId)
                  IN  l[i].lastMessageTimestamp =
                          IF /\ c.lastMessageId # NoId
                             /\ getMessage(c.lastMessageId) # NoMessage
                             /\ <<"timestamp", c._id>> \notin failed
                          THEN getMessage(c.lastMessageId)._creationTime
                          ELSE 0
            /\ \A i, j \in 1..Len(l) :
                  i < j =>
                     /\ l[i].lastMessageTimestamp >= l[j].lastMessageTimestamp
                     /\ l[i].lastMessageTimestamp = l[j].lastMessageTimestamp =>
                            C21_QueryPosition(caller, l[i].conversationId)
                                <= C21_QueryPosition(caller, l[j].conversationId)

\* a caller's list that the sort reordered: the conversation joined later
\* has the last message and comes first; when the read of that message
\* throws it counts as time 0 and the list is in the order of the query
C21_Witness ==
    \E caller \in Identities :
        LET l == C21_List(caller, {})
            u == C21_List(caller, {<<"timestamp", l[1].conversationId>>})
        IN  /\ Len(l) = 2
            /\ l[1].lastMessageTimestamp > l[2].lastMessageTimestamp
            /\ C21_QueryPosition(caller, l[1].conversationId)
                   > C21_QueryPosition(caller, l[2].conversationId)
            /\ Len(u) = 2
            /\ u[1].conversationId = l[2].conversationId
            /\ u[1].lastMessageTimestamp = 0 /\ u[2].lastMessageTimestamp = 0

\* the entries of list l for conversations none of whose reads is in failed
C22_Unaffected(l, failed) ==
    SelectSeq(l, LAMBDA d : \A k \in ReadKinds : <<k, d.conversationId>> \notin failed)

\* C22: conversations.get returns a list whichever reads throw, and the
\* entries of every conversation none of whose reads threw are the entries
\* of the call in which nothing throws, in the same order.
C22_PartialResults ==
    \A caller \in Callers, failed \in FailureSets :
        /\ getOutcomeWhen(caller, failed).ok
        /\ getOutcomeWhen(caller, failed).db = db
        /\ C22_Unaffected(getOutcomeWhen(caller, failed).value, failed)
               = C22_Unaffected(getOutcome(caller).value, failed)

\* a caller lists two conversations; when the membership read of one of
\* them throws the other is still returned, and when only the last-message
\* read throws the conversation stays in the list without its last message
C22_Witness ==
    \E caller \in Identities, cid \in ConversationArgs :
        /\ Len(getOutcome(caller).value) = 2
        /\ Len(getOutcomeWhen(caller, {<<"memberships", cid>>}).value) = 1
        /\ \E m \in messages : m.conversationId = cid
        /\ Len(getOutcomeWhen(caller, {<<"lastMessage", cid>>}).value) = 2

\* the stored usernames the claim names for an input: the input itself and
\* the input followed by a shield (with or without U+FE0F) or a crown
C23_Suffixed(input) ==
    {input, input \o <<SHIELD>>, input \o <<SHIELD, VS16>>, input \o <<CROWN>>}

\* C23 as claimed: createByUsername resolves the input to a stored user
\* exactly when the stored username, compared case-insensitively, is the
\* input or the input followed by a shield or crown emoji.
C23_ResolvesSuffixOnly ==
    match.resolved \in {"yes", "no"} =>
        (match.resolved = "yes"
            <=> toLowerCase(match.stored) \in C23_Suffixed(toLowerCase(match.input)))

RECURSIVE C23_Strip(_)
\* name without its shields (and the U+FE0F that follows one), crowns and
\* other emoji
C23_Strip(name) ==
    IF name = <<>> THEN <<>>
    ELSE IF Len(name) >= 2 /\ name[1] = SHIELD /\ name[2] = VS16
    THEN C23_Strip(SubSeq(name, 3, Len(name)))
    ELSE IF name[1] \in {SHIELD, CROWN, GRIN} THEN C23_Strip(Tail(name))
    ELSE <<name[1]>> \o C23_Strip(Tail(name))

\* C23 amended: createByUsername resolves the input to a stored user exactly
\* when the stored username with every shield, crown and other emoji removed
\* and the blanks around it trimmed, compared case-insensitively, is the
\* input; so "a" resolves to a stored "a" + crown and not to a stored "a2".
C23_ResolvesPlainName ==
    /\ match.resolved \in {"yes", "no"} =>
          (match.resolved = "yes"
              <=> toLowerCase(trim(C23_Strip(match.stored))) = toLowerCase(match.input))
    /\ (match.resolved # "none" /\ match.input = <<"a">>) =>
          /\ match.stored = <<"a", CROWN>> => match.resolved = "yes"
          /\ match.stored = <<"a", "2">> => match.resolved = "no"

\* an input resolves to a stored username that is neither the input nor the
\* input followed by a shield or a crown
C23_Witness ==
    /\ match.resolved = "yes"
    /\ Len(match.stored) = MaxStoredLen
    /\ toLowerCase(match.stored) \notin C23_Suffixed(toLowerCase(match.input))

\* C24: conversations.get returns an empty list to every authenticated user
\* who has no membership row.
C24_NoMembershipEmptyList ==
    \A caller \in Identities :
        LET u == getUserByClerkId(caller.subject)
        IN  (u # NoUserRow /\ \A i \in 1..Len(members) : members[i].memberId # u._id) =>
                /\ getOutcome(caller).ok
                /\ getOutcome(caller).value = <<>>

\* one stored user has no membership row while another user's list is not
\* empty
C24_Witness ==
    \E caller, other \in Identities :
        /\ getUserByClerkId(caller.subject) # NoUserRow
        /\ \A i \in 1..Len(members) :
              members[i].memberId # getUserByClerkId(caller.subject)._id
        /\ getOutcome(caller).value = <<>>
        /\ getOutcome(other).value # <<>>

\* the tables the steps of a passing accept write, in order
C25_Order(steps) == [i \in 2..Len(steps) |-> <<steps[i].op, steps[i].table>>]

\* C25: accept writes in the order insert conversation, insert friendship,
\* insert receiver membership, insert sender membership, delete request; so
\* while an accept that applies its writes one at a time has applied a
\* proper prefix of them, and after it stops there, the request row is
\* still stored as pending. The writes applied to the end give the store the
\* accept transaction commits.
C25_RequestKeptUntilLastWrite ==
    /\ call # NoCall =>
          /\ call.pc < Len(call.steps)
          /\ getRequest(call.request) # NoRequest
          /\ getRequest(call.request).status = "pending"
    /\ \A caller \in Callers, id \in RequestArgs :
          LET steps == acceptSteps(caller, id)
              o == acceptOutcome(caller, id)
          IN  /\ Run(steps).ok = o.ok
              /\ o.ok =>
                    /\ Run(steps).db = o.db
                    /\ C25_Order(steps) =
                          [i \in 2..6 |->
                              <<IF i = 6 THEN "delete" ELSE "insert",
                                IF i = 2 THEN "conversations"
                                ELSE IF i = 3 THEN "friendships"
                                ELSE IF i = 6 THEN "requests"
                                ELSE "conversationMembers">>]
                    /\ steps[4].arg.memberId = getRequest(id).receiverId
                    /\ steps[5].arg.memberId = getRequest(id).senderId

\* an accept has inserted the conversation, the friendship and both
\* memberships and has not deleted the request yet
C25_Witness ==
    /\ call # NoCall
    /\ call.pc = Len(call.steps) - 1
    /\ friendships # <<>>
    /\ Len(members) = 2
    /\ getRequest(call.request).status = "pending"

\* a run that ended in a throw left the store as it was
C26_Clean(r) == ~r.ok => r.db = db

\* C26: in every mutation each validation or authorization failure is raised
\* before the first write, so a rejected call whose writes are applied one
\* at a time with no rollback leaves every table unchanged.
C26_RejectedBeforeFirstWrite ==
    \A caller \in Callers :
        /\ \A name \in Names :
              /\ \A memberIds \in MemberIdLists :
                    C26_Clean(Run(createGroupSteps(caller, name, memberIds)))
              /\ \A memberIds \in StringIdLists, imageUrl \in Images \cup {NoImage} :
                    C26_Clean(Run(createGroupChatSteps(caller, name, memberIds, imageUrl)))
        /\ \A cid \in ConversationArgs :
              /\ C26_Clean(Run(leaveGroupSteps(caller, cid)))
              /\ C26_Clean(Run(deleteGroupStepsOf(caller, cid)))
              /\ \A name \in Names : C26_Clean(Run(updateGroupNameSteps(caller, cid, name)))
              /\ \A imageUrl \in Images :
                    C26_Clean(Run(updateGroupImageSteps(caller, cid, imageUrl)))
              /\ \A memberIds \in StringIdLists :
                    C26_Clean(Run(addGroupMembersSteps(caller, cid, memberIds)))
              /\ \A memberId \in MemberIdArgs :
                    C26_Clean(Run(removeGroupMemberSteps(caller, cid, memberId)))
        /\ \A email \in EmailArgs : C26_Clean(Run(createSteps(caller, email)))
        /\ \A username \in UsernameArgs :
              C26_Clean(Run(createByUsernameSteps(caller, username)))
        /\ \A id \in RequestArgs :
              /\ C26_Clean(Run(acceptSteps(caller, id)))
              /\ C26_Clean(Run(denySteps(caller, id)))

\* C27: once an accept or a deny of a request id has succeeded the request
\* row is gone, and accept and deny of an id that has no stored row fail for
\* every caller and change nothing; so of any sequence of accept and deny
\* calls on one request at most the first succeeds.
C27_AtMostOneDecision ==
    \A caller \in Callers, id \in RequestArgs :
        /\ acceptOutcome(caller, id).ok =>
              \A r \in acceptOutcome(caller, id).db.requests : r._id # id
        /\ denyOutcome(caller, id).ok =>
              \A r \in denyOutcome(caller, id).db.requests : r._id # id
        /\ getRequest(id) = NoRequest =>
              /\ ~acceptOutcome(caller, id).ok /\ acceptOutcome(caller, id).db = db
              /\ ~denyOutcome(caller, id).ok /\ denyOutcome(caller, id).db = db

\* a request was accepted (the pair is friends with one conversation), its
\* row is gone, and its receiver's second accept and deny fail
C27_Witness ==
    \E a, b \in UserIds, caller \in Identities, id \in RequestArgs :
        /\ a # b
        /\ getUserByClerkId(caller.subject)._id = a
        /\ Cardinality(FriendshipRows(db, a, b)) = 1
        /\ requests = {}
        /\ ~acceptOutcome(caller, id).ok
        /\ ~denyOutcome(caller, id).ok

\* C28: when every current member of a group calls leaveGroup once, each of
\* the calls succeeds; in particular the call of whichever member leaves
\* first succeeds in the current state.
C28_EveryMemberCanLeave ==
    \A caller \in Identities, c \in conversations :
        LET u == getUserByClerkId(caller.subject)
        IN  (c.isGroup /\ u # NoUserRow /\ u._id \in MemberIdsOf(db, c._id)) =>
                leaveGroupOutcome(caller, c._id).ok

\* C29: in the list conversations.get returns, each conversation of the
\* caller appears at most once.
C29_ListedOnce ==
    \A caller \in Callers :
        LET l == getOutcome(caller).value
        IN  \A i, j \in 1..Len(l) :
                i # j => l[i].conversationId # l[j].conversationId


====
